---- MODULE Spec2Model ----
(***************************************************************************)
(* Model of the Riemann-difference right-hand-side pipeline of PyFR:       *)
(*   pyfr/solvers/baseadvec/system.py   BaseAdvectionSystem                *)
(*   pyfr/solvers/euler/elements.py     EulerElements                      *)
(*   pyfr/solvers/navstokes/elements.py NavierStokesElements               *)
(* The queue type, backend.runall and the kernel bodies are not part of    *)
(* these files; they are modelled from the design document (section 4.2).  *)
(***************************************************************************)
EXTENDS Integers, Sequences, FiniteSets, TLC

VARIABLES
    cfg,        \* the configuration the element class reads in set_backend
    setup,      \* "none" before set_backend, then "ok" or the error it raised
    kernels,    \* the registered kernel slots, a set of <<provider, name>>
    pc,         \* 0: no rhs call in progress; i > 0: next instruction of rhs_LO
    q1, q2,     \* the two queues of the system (self._queues)
    running,    \* the queue list the runall in progress was given, <<>> if none
    done,       \* per queue, the invocations executed during the current call
    enqd,       \* per queue, the invocations enqueued during the current call
    ncall,      \* number of rhs calls started
    args,       \* [t, uinbank, foutbank] of the current call
    active,     \* [inb, outb]: the active banks of eles_scal_upts_inb/outb
    bct,        \* the time the boundary interfaces were last prepared for
    outcome,    \* how the last rhs call ended
    basis,      \* [order, upts, ndims]: self.basis.order, the 1-D solution
                \* points self.basis.upts[:p+1,0], and self.ndims
    M,          \* the local M of a generateSmoothMat call in progress
    it,         \* number of (i, j) loop iterations of that call done
    smoothmat,  \* the matrix generateSmoothMat returned, <<>> before
    rdpts,      \* the extended point set getRDpts returned, <<>> before
    interpmat,  \* the matrix generateInterpMat returned, <<>> before
    diffmatRD   \* the matrix generateRDDiffMat returned, <<>> before

vars == <<cfg, setup, kernels, pc, q1, q2, running, done, enqd, ncall, args,
          active, bct, outcome, basis, M, it, smoothmat, rdpts, interpmat,
          diffmatRD>>

pipevars == <<pc, q1, q2, running, done, enqd, ncall, args, active, bct, outcome>>
opvars == <<rdpts, interpmat, diffmatRD>>
smoothvars == <<basis, M, it, smoothmat, opvars>>

(* ------------------------------ bounds --------------------------------- *)
MaxCalls == 2       \* rhs calls per behaviour
MaxT == 2           \* simulation times 1..MaxT
NBanks == 2         \* banks of the solution buffer
MaxPts == 1         \* nupts and neles range over 0..MaxPts in set_backend
MaxQ == 3           \* queue length when runall is exercised on its own
MaxOrder == 3       \* polynomial orders 1..MaxOrder of the operator builder
MaxCoord == 4       \* solution points lie on the grid 0..MaxCoord

Times == 1..MaxT
Banks == 0..(NBanks - 1)
NoArgs == [t |-> 0, uinbank |-> 0, foutbank |-> 0]

(* ------------------------- kernel registration ------------------------- *)
\* euler/elements.py:93-160: the slots registered only when
\* shock-capturing = riemann-difference
RDKernels == { <<"eles", "copy_soln_at_fpts">>, <<"eles", "residual">>,
               <<"eles", "normalizeresidual">>, <<"eles", "limitinterp">>,
               <<"eles", "riemanndifference">> }

\* euler/elements.py:77-88: registered whatever the shock-capturing option
EulerKernels == { <<"eles", "tdisf">>, <<"eles", "tdisu">> }

\* The slots the pipeline uses that the base classes and the interface
\* classes provide (super().set_backend, euler/elements.py:64).
BaseKernels ==
    { <<"eles", n>> : n \in {"disu_LO_ext", "disu_LO_int", "disu_HO_ext",
                             "disu_HO_int", "divf_LO", "tdivtconf_LO",
                             "tdivtpcorf_LO", "blendintflux", "tdivtconf_RD",
                             "negdivconf"} }
    \cup { <<"iint", n>> : n \in {"comm_flux_centered", "comm_sol_centered", "comm_flux"} }
    \cup { <<"bcint", n>> : n \in {"comm_flux_centered", "comm_sol_centered", "comm_flux"} }
    \cup { <<"mpiint", n>> : n \in {"scal_fpts_pack", "scal_fpts_send", "scal_fpts_recv",
                                     "scal_fpts_unpack", "comm_flux_centered",
                                     "comm_sol_centered", "comm_flux"} }

\* The optional slots, present or not depending on the anti-aliasing options
OptKernels == { <<"eles", "copy_soln">>, <<"eles", "tdivf_qpts">> }

ShockCapturing == {"none", "riemann-difference"}
ViscCorr == {"sutherland", "none", "powerlaw"}
Geometries == {"cylinder", "squarecylinder", "tandsphere", "cube", "TGV"}
GeoTags == Geometries \cup {"sphere"}

\* The configurations: which element class, its options, and what a lookup
\* of an unregistered slot in self._kernels does ("dict": KeyError,
\* "defaultdict": an empty kernel list).
Configs ==
    [ eles : {"euler"}, shock : ShockCapturing, aaflux : BOOLEAN,
      opt : SUBSET OptKernels, kmap : {"dict", "defaultdict"},
      visc : {"none"}, geo : {"TGV"}, nupts : {1}, neles : {1}, ndims : {2} ]
    \cup
    [ eles : {"navier-stokes"}, shock : {"none"}, aaflux : {FALSE},
      opt : { {}, {<<"eles", "copy_soln">>} }, kmap : {"dict"},
      visc : ViscCorr, geo : GeoTags, nupts : 0..MaxPts, neles : 0..MaxPts,
      ndims : {2, 3} ]

(* ------------------------- exact rational numbers ---------------------- *)
\* Matrix entries are exact rationals <<numerator, denominator>> in lowest
\* terms with a positive denominator (rounding of the floats is not modelled).
RECURSIVE GCD(_, _)
GCD(a, b) == IF b = 0 THEN a ELSE GCD(b, a % b)
Abs(x) == IF x < 0 THEN -x ELSE x
Rat(n, d) == LET g == GCD(Abs(n), Abs(d))
                 sg == IF d < 0 THEN -1 ELSE 1
             IN <<sg * (n \div g), sg * (d \div g)>>
RZero == Rat(0, 1)
ROne == Rat(1, 1)
RHalf == Rat(1, 2)
RAdd(a, b) == Rat(a[1] * b[2] + b[1] * a[2], a[2] * b[2])
RMul(a, b) == Rat(a[1] * b[1], a[2] * b[2])
RDiv(a, b) == Rat(a[1] * b[2], a[2] * b[1])
RInv(d) == Rat(1, d)
Min(a, b) == IF a < b THEN a ELSE b
Max(a, b) == IF a > b THEN a ELSE b

(* ---------------------------- generateSmoothMat ------------------------ *)
\* self.nupts of a tensor-product element of order p in ndims dimensions
RECURSIVE Pow(_, _)
Pow(b, e) == IF e = 0 THEN 1 ELSE b * Pow(b, e - 1)
NUpts(b) == Pow(b.order + 1, b.ndims)

\* euler/elements.py:177: M = np.zeros((self.nupts, self.nupts))
ZeroMat(n) == [r \in 0..(n - 1), c \in 0..(n - 1) |-> RZero]

\* euler/elements.py:183-199: the indices and the weights of node (i, j)
SmoothWeights(b, i, j) ==
    LET p == b.order
        solpts == [n \in 0..p |-> b.upts[n + 1]]
        uidx(xidx, yidx) == xidx + yidx * (p + 1)
        \* lines 189-192: the four distances
        dxp0 == Abs(solpts[Min(i + 1, p)] - solpts[i])
        dxm0 == Abs(solpts[Max(0, i - 1)] - solpts[i])
        dym0 == Abs(solpts[Min(j + 1, p)] - solpts[j])
        dyp0 == Abs(solpts[Max(0, j - 1)] - solpts[j])
        \* lines 194-197: each name is reassigned in turn, so the test of the
        \* second of a pair reads the first one's new value
        dxp == IF dxp0 # 0 /\ dxm0 # 0 THEN RInv(dxp0) ELSE RZero
        dxm == IF dxp # RZero /\ dxm0 # 0 THEN RInv(dxm0) ELSE RZero
        dyp == IF dyp0 # 0 /\ dym0 # 0 THEN RInv(dyp0) ELSE RZero
        dym == IF dyp # RZero /\ dym0 # 0 THEN RInv(dym0) ELSE RZero
    IN [ idx |-> uidx(i, j),
         ridx |-> uidx(Min(i + 1, p), j),
         lidx |-> uidx(Max(0, i - 1), j),
         tidx |-> uidx(i, Min(j + 1, p)),
         bidx |-> uidx(i, Max(0, j - 1)),
         dxp |-> dxp, dxm |-> dxm, dyp |-> dyp, dym |-> dym,
         dtot |-> RAdd(RAdd(dxp, dxm), RAdd(dyp, dym)) ]

\* 0.5*d/dtot if dtot != 0 else 0.0
SmoothWeight(d, dtot) ==
    IF dtot # RZero THEN RDiv(RMul(RHalf, d), dtot) ELSE RZero

\* The loop body with the diagonal entry written first instead of last
SmoothBody_DiagFirst(m, b, i, j) ==
    LET w == SmoothWeights(b, i, j)
        m0 == [m EXCEPT ![w.idx, w.idx] = IF w.dtot # RZero THEN RHalf ELSE ROne]
        m1 == [m0 EXCEPT ![w.idx, w.ridx] = SmoothWeight(w.dxp, w.dtot)]
        m2 == [m1 EXCEPT ![w.idx, w.lidx] = SmoothWeight(w.dxm, w.dtot)]
        m3 == [m2 EXCEPT ![w.idx, w.tidx] = SmoothWeight(w.dyp, w.dtot)]
    IN [m3 EXCEPT ![w.idx, w.bidx] = SmoothWeight(w.dym, w.dtot)]

\* euler/elements.py:183-205: the body of the (i, j) loop applied to m; the
\* five assignments of lines 201-205 in their order
SmoothBody(m, b, i, j) ==
    LET w == SmoothWeights(b, i, j)
        m1 == [m EXCEPT ![w.idx, w.ridx] = SmoothWeight(w.dxp, w.dtot)]
        m2 == [m1 EXCEPT ![w.idx, w.lidx] = SmoothWeight(w.dxm, w.dtot)]
        m3 == [m2 EXCEPT ![w.idx, w.tidx] = SmoothWeight(w.dyp, w.dtot)]
        m4 == [m3 EXCEPT ![w.idx, w.bidx] = SmoothWeight(w.dym, w.dtot)]
    IN [m4 EXCEPT ![w.idx, w.idx] = IF w.dtot # RZero THEN RHalf ELSE ROne]

\* The loop nest of lines 181-182: iteration n (from 0) is i = n div (p+1),
\* j = n mod (p+1)
LoopLen(b) == IF b.ndims = 2 THEN (b.order + 1) * (b.order + 1) ELSE 0
SmoothStep(m, b, n) == SmoothBody(m, b, n \div (b.order + 1), n % (b.order + 1))

RECURSIVE SmoothLoop(_, _, _)
SmoothLoop(m, b, n) ==
    IF n >= LoopLen(b) THEN m ELSE SmoothLoop(SmoothStep(m, b, n), b, n + 1)

\* euler/elements.py:173-206
generateSmoothMat(b) == SmoothLoop(ZeroMat(NUpts(b)), b, 0)

(* ------------- getRDpts, generateInterpMat, generateRDDiffMat ---------- *)
\* A point of the reference interval [-1, 1]: grid index g is -1 + 2g/MaxCoord
Coord(g) == Rat(2 * g - MaxCoord, MaxCoord)
RSub(a, b) == Rat(a[1] * b[2] - b[1] * a[2], a[2] * b[2])
RECURSIVE RPow(_, _)
RPow(a, e) == IF e = 0 THEN ROne ELSE RMul(a, RPow(a, e - 1))
RECURSIVE RSumOver(_, _, _)
\* f[lo] + ... + f[hi]
RSumOver(f, lo, hi) == IF lo > hi THEN RZero ELSE RAdd(f[lo], RSumOver(f, lo + 1, hi))
RECURSIVE RProdOver(_, _, _)
\* f[lo] * ... * f[hi]
RProdOver(f, lo, hi) == IF lo > hi THEN ROne ELSE RMul(f[lo], RProdOver(f, lo + 1, hi))

\* euler/elements.py:164 (and 175, 212, 226): solpts = self.basis.upts[:p+1,0]
SolPts(b) == [n \in 0..b.order |-> Coord(b.upts[n + 1])]

\* get_quadrule('line', 'gauss-legendre', p).pts: p increasing points strictly
\* inside the interval
QuadRules(p) ==
    { g \in [1..p -> 1..(MaxCoord - 1)] : \A n \in 1..(p - 1) : g[n] < g[n + 1] }

\* euler/elements.py:162-171, with pts the points of the quadrature rule:
\* rdpts[0] = -1, rdpts[-1] = 1, rdpts[1:-1] = pts
getRDpts(b, pts) ==
    [n \in 0..(b.order + 1) |->
        IF n = 0 THEN Rat(-1, 1)
        ELSE IF n = b.order + 1 THEN ROne
        ELSE Coord(pts[n])]

\* interpolate.lagrange(x, vals)(at) with vals the i-th unit vector: the i-th
\* Lagrange basis polynomial of the nodes x[0..n], evaluated at the point at
Lagrange(x, n, i, at) ==
    RProdOver([k \in 0..n |-> IF k = i THEN ROne
                              ELSE RDiv(RSub(at, x[k]), RSub(x[i], x[k]))], 0, n)

\* interpolate.lagrange(x, vals).deriv()(at): the derivative of that polynomial
LagrangeDeriv(x, n, i, at) ==
    RSumOver([m \in 0..n |->
                 IF m = i THEN RZero
                 ELSE RMul(RDiv(ROne, RSub(x[i], x[m])),
                           RProdOver([k \in 0..n |->
                                         IF k = i \/ k = m THEN ROne
                                         ELSE RDiv(RSub(at, x[k]), RSub(x[i], x[k]))],
                                     0, n))], 0, n)

\* generateInterpMat with the Lagrange basis built on the first p+1 extended
\* points instead of the solution points
generateInterpMat_OnRDpts(b, rd) ==
    [j \in 0..(b.order + 1), i \in 0..b.order |-> Lagrange(rd, b.order, i, rd[j])]

\* euler/elements.py:208-220: M[j,i] = lag_i(rdpts[j]), lag_i on solpts
generateInterpMat(b, rd) ==
    [j \in 0..(b.order + 1), i \in 0..b.order |->
        Lagrange(SolPts(b), b.order, i, rd[j])]

\* euler/elements.py:222-234: M[j,i] = dlag_i(solpts[j]), lag_i on rdpts
generateRDDiffMat(b, rd) ==
    [j \in 0..b.order, i \in 0..(b.order + 1) |->
        LagrangeDeriv(rd, b.order + 1, i, SolPts(b)[j])]

(* ------------------------------ set_backend ---------------------------- *)
\* The element set of the pipeline runs: a quadrilateral of order 2, and
\* the points of its 2-point quadrature rule
QuadBasis == [order |-> 2, upts |-> <<0, 1, 3>>, ndims |-> 2]
QuadRule == <<1, 3>>

\* euler/elements.py:63-160
EulerSetBackend ==
    /\ setup = "none" /\ cfg.eles = "euler"
    /\ IF cfg.aaflux
       THEN /\ setup' = "ValueError"
            /\ kernels' = BaseKernels \cup cfg.opt
            /\ UNCHANGED <<smoothmat, opvars>>
       ELSE /\ setup' = "ok"
            /\ kernels' = BaseKernels \cup cfg.opt \cup EulerKernels
                          \cup (IF cfg.shock = "riemann-difference" THEN RDKernels ELSE {})
            /\ IF cfg.shock = "riemann-difference"
               THEN LET rd == getRDpts(basis, QuadRule) IN
                    /\ rdpts' = rd
                    /\ diffmatRD' = generateRDDiffMat(basis, rd)
                    /\ smoothmat' = generateSmoothMat(basis)
                    /\ interpmat' = generateInterpMat(basis, rd)
               ELSE UNCHANGED <<smoothmat, opvars>>
    /\ UNCHANGED <<cfg, pipevars, basis, M, it>>

\* navstokes/elements.py:116-144: the result of the call, "ok" or the error.
\* The loop body runs nupts*nelems times; [x,y,z] = ploc[i,:,j] needs three
\* coordinates; d is assigned only in the five geometry branches.
walldist_at_ploc(geo, nupts, ndims, nelems) ==
    IF nupts = 0 \/ nelems = 0 THEN "ok"
    ELSE IF ndims # 3 THEN "ValueError"
    ELSE IF geo \in Geometries THEN "ok"
    ELSE "UnboundLocalError"

\* navstokes/elements.py:25-113
NavierStokesSetBackend ==
    /\ setup = "none" /\ cfg.eles = "navier-stokes"
    /\ IF cfg.visc \notin {"sutherland", "none"}
       THEN /\ setup' = "ValueError"
            /\ kernels' = BaseKernels
       ELSE LET w == walldist_at_ploc(cfg.geo, cfg.nupts, cfg.ndims, cfg.neles) IN
            /\ setup' = w
            /\ kernels' = IF w = "ok"
                          THEN BaseKernels \cup {<<"eles", "tdisf">>,
                                                 <<"eles", "gradcoru_upts">>,
                                                 <<"eles", "negdivconf">>} \cup cfg.opt
                          ELSE BaseKernels
    /\ UNCHANGED <<cfg, pipevars, smoothvars>>

(* --------------------------- the rhs program --------------------------- *)
\* One record per statement of the stage methods; line is its source line.
\*   enq:    q << kernels[k]()        (tt: the call passes t=t)
\*   enqif:  if k in kernels: q << kernels[k]()
\*   runall: runall(qs)
\*   final:  system.py:195-198
Enq(qi, prov, name, ln) ==
    [op |-> "enq", q |-> qi, k |-> <<prov, name>>, tt |-> FALSE, qs |-> <<>>, line |-> ln]
EnqT(qi, prov, name, ln) ==
    [op |-> "enq", q |-> qi, k |-> <<prov, name>>, tt |-> TRUE, qs |-> <<>>, line |-> ln]
EnqIf(qi, prov, name, ln) ==
    [op |-> "enqif", q |-> qi, k |-> <<prov, name>>, tt |-> FALSE, qs |-> <<>>, line |-> ln]
RunAll(queues, ln) ==
    [op |-> "runall", q |-> 0, k |-> <<"", "">>, tt |-> FALSE, qs |-> queues, line |-> ln]
Final(ln) ==
    [op |-> "final", q |-> 1, k |-> <<"eles", "negdivconf">>, tt |-> TRUE, qs |-> <<>>, line |-> ln]

\* system.py:32-54
calc_LOupwind_divf ==
    << Enq(1, "eles", "disu_LO_ext", 34),
       Enq(1, "mpiint", "scal_fpts_pack", 35),
       RunAll(<<1>>, 36),
       Enq(1, "eles", "disu_LO_int", 37),
       EnqIf(1, "eles", "copy_soln", 38),
       Enq(1, "eles", "divf_LO", 42),
       Enq(1, "iint", "comm_flux_centered", 45),
       EnqT(1, "bcint", "comm_flux_centered", 46),
       Enq(2, "mpiint", "scal_fpts_send", 48),
       Enq(2, "mpiint", "scal_fpts_recv", 49),
       Enq(2, "mpiint", "scal_fpts_unpack", 50),
       RunAll(<<1, 2>>, 51),
       Enq(1, "mpiint", "comm_flux_centered", 52),
       Enq(1, "eles", "tdivtconf_LO", 54) >>

\* system.py:101-122
calc_LO_residual ==
    << Enq(1, "eles", "residual", 102),
       Enq(1, "eles", "disu_LO_ext", 104),
       Enq(1, "mpiint", "scal_fpts_pack", 105),
       RunAll(<<1>>, 106),
       Enq(1, "eles", "disu_LO_int", 107),
       EnqIf(1, "eles", "copy_soln", 108),
       Enq(1, "eles", "tdisu", 111),
       Enq(1, "eles", "tdivtpcorf_LO", 112),
       Enq(1, "iint", "comm_sol_centered", 114),
       EnqT(1, "bcint", "comm_sol_centered", 115),
       Enq(2, "mpiint", "scal_fpts_send", 116),
       Enq(2, "mpiint", "scal_fpts_recv", 117),
       Enq(2, "mpiint", "scal_fpts_unpack", 118),
       RunAll(<<1, 2>>, 119),
       Enq(1, "mpiint", "comm_sol_centered", 120),
       Enq(1, "eles", "tdivtconf_LO", 121),
       Enq(1, "eles", "normalizeresidual", 122) >>

\* system.py:149-199
calc_RD_divf ==
    << Enq(1, "eles", "disu_LO_ext", 151),
       Enq(1, "mpiint", "scal_fpts_pack", 152),
       RunAll(<<1>>, 153),
       Enq(1, "eles", "disu_LO_int", 154),
       EnqIf(1, "eles", "copy_soln", 156),
       Enq(1, "iint", "comm_flux", 159),
       EnqT(1, "bcint", "comm_flux", 160),
       Enq(2, "mpiint", "scal_fpts_send", 161),
       Enq(2, "mpiint", "scal_fpts_recv", 162),
       Enq(2, "mpiint", "scal_fpts_unpack", 163),
       RunAll(<<1, 2>>, 164),
       Enq(1, "mpiint", "comm_flux", 166),
       Enq(1, "eles", "copy_soln_at_fpts", 167),
       RunAll(<<1>>, 168),
       Enq(1, "eles", "disu_HO_ext", 171),
       Enq(1, "mpiint", "scal_fpts_pack", 172),
       RunAll(<<1>>, 173),
       Enq(1, "eles", "disu_HO_int", 174),
       Enq(1, "eles", "limitinterp", 175),
       EnqIf(1, "eles", "copy_soln", 177),
       Enq(1, "iint", "comm_flux", 180),
       EnqT(1, "bcint", "comm_flux", 181),
       Enq(2, "mpiint", "scal_fpts_send", 182),
       Enq(2, "mpiint", "scal_fpts_recv", 183),
       Enq(2, "mpiint", "scal_fpts_unpack", 184),
       RunAll(<<1, 2>>, 185),
       Enq(1, "mpiint", "comm_flux", 186),
       Enq(1, "eles", "riemanndifference", 189),
       Enq(1, "eles", "blendintflux", 192),
       Enq(1, "eles", "tdivtconf_RD", 193),
       Final(195),
       RunAll(<<1>>, 199) >>

\* rhs_LO with the runall of line 51 given the compute queue only
rhs_LO_SingleQueueRun ==
    [calc_LOupwind_divf \o calc_LO_residual \o calc_RD_divf
        EXCEPT ![12] = RunAll(<<1>>, 51)]

\* rhs_LO returning before the runall of line 199
rhs_LO_NoFinalRun ==
    LET prog == calc_LOupwind_divf \o calc_LO_residual \o calc_RD_divf
    IN SubSeq(prog, 1, Len(prog) - 1)

\* rhs_LO with the runall of line 119 given the compute queue only
rhs_LO_ResidualSingleQueue ==
    [calc_LOupwind_divf \o calc_LO_residual \o calc_RD_divf
        EXCEPT ![Len(calc_LOupwind_divf) + 14] = RunAll(<<1>>, 119)]

\* rhs_LO with the pack of line 35 put on the communication queue and the
\* runall of line 36 given both queues
rhs_LO_PackOnQ2 ==
    [calc_LOupwind_divf \o calc_LO_residual \o calc_RD_divf
        EXCEPT ![2] = Enq(2, "mpiint", "scal_fpts_pack", 35),
               ![3] = RunAll(<<1, 2>>, 36)]

\* rhs_LO with the statements of lines 51 and 52 exchanged: the
\* partition-boundary flux kernel is enqueued before the joint runall
rhs_LO_CommBeforeBarrier ==
    [calc_LOupwind_divf \o calc_LO_residual \o calc_RD_divf
        EXCEPT ![12] = Enq(1, "mpiint", "comm_flux_centered", 52),
               ![13] = RunAll(<<1, 2>>, 51)]

\* rhs_LO without the runall of line 36
rhs_LO_NoPackRun ==
    LET prog == calc_LOupwind_divf \o calc_LO_residual \o calc_RD_divf
    IN SubSeq(prog, 1, 2) \o SubSeq(prog, 4, Len(prog))

\* rhs_LO with the statements of lines 166 and 167 exchanged: the copy of
\* the face values is taken before the partition-boundary flux kernel
rhs_LO_CopyBeforeMpiFlux ==
    [calc_LOupwind_divf \o calc_LO_residual \o calc_RD_divf
        EXCEPT ![Len(calc_LOupwind_divf) + Len(calc_LO_residual) + 12] =
                   Enq(1, "eles", "copy_soln_at_fpts", 167),
               ![Len(calc_LOupwind_divf) + Len(calc_LO_residual) + 13] =
                   Enq(1, "mpiint", "comm_flux", 166)]

\* rhs_LO with the statements of lines 102 and 104 exchanged: the residual
\* kernel is enqueued after the extrapolation of calc_LO_residual
rhs_LO_ResidualLate ==
    [calc_LOupwind_divf \o calc_LO_residual \o calc_RD_divf
        EXCEPT ![Len(calc_LOupwind_divf) + 1] = Enq(1, "eles", "disu_LO_ext", 104),
               ![Len(calc_LOupwind_divf) + 2] = Enq(1, "eles", "residual", 102)]

\* system.py:12-30: the statements rhs_LO runs after its prologue (lines 13-20)
rhs_LO == calc_LOupwind_divf \o calc_LO_residual \o calc_RD_divf

ProgLen == Len(rhs_LO)

\* system.py:22-30: the last statement of each stage method, in call order
StageLast(k) ==
    IF k = 0 THEN 0
    ELSE IF k = 1 THEN Len(calc_LOupwind_divf)
    ELSE IF k = 2 THEN Len(calc_LOupwind_divf) + Len(calc_LO_residual)
    ELSE ProgLen
StageFirst(k) == StageLast(k - 1) + 1
Instr == rhs_LO[pc]
AtInstr == pc \in 1..ProgLen

Range(s) == { s[i] : i \in 1..Len(s) }
Queue(qi) == IF qi = 1 THEN q1 ELSE q2

\* An invocation record: the slot, the call and statement that enqueued it,
\* and the time bound at enqueue (0 when the call binds no t)
Invocation(ins) ==
    [k |-> ins.k, call |-> ncall, at |-> pc, t |-> IF ins.tt THEN args.t ELSE 0]

(* ------------------------------ the queues ----------------------------- *)
\* q << items: append to the tail of the queue
Append1(q, inv) == Append(q, inv)

\* The state after  q << kernels[k]()  at the current statement
EnqueueOn(ins) ==
    /\ q1' = IF ins.q = 1 THEN Append1(q1, Invocation(ins)) ELSE q1
    /\ q2' = IF ins.q = 2 THEN Append1(q2, Invocation(ins)) ELSE q2
    /\ enqd' = [enqd EXCEPT ![ins.q] = Append(@, Invocation(ins))]

\* The rhs call ends with exception e: the queues keep what they hold
Raise(e) ==
    /\ pc' = 0
    /\ outcome' = e
    /\ UNCHANGED <<q1, q2, enqd, done, running>>

(* ------------------------------ rhs actions ---------------------------- *)
\* system.py:9-20: rhs(t, uinbank, foutbank) up to the first stage method
rhs(t, uinbank, foutbank) ==
    /\ setup = "ok" /\ cfg.eles = "euler"
    /\ pc = 0 /\ ncall < MaxCalls
    /\ ncall' = ncall + 1
    /\ args' = [t |-> t, uinbank |-> uinbank, foutbank |-> foutbank]
    /\ bct' = t
    /\ active' = [inb |-> uinbank, outb |-> foutbank]
    /\ done' = [qi \in {1, 2} |-> <<>>]
    /\ enqd' = [qi \in {1, 2} |-> <<>>]
    /\ outcome' = "running"
    /\ pc' = 1
    /\ UNCHANGED <<cfg, setup, kernels, q1, q2, running, smoothvars>>

\* q << kernels[k](): an unregistered slot raises KeyError when self._kernels
\* is a plain mapping and yields no kernels when it is a defaultdict
Enqueue ==
    /\ AtInstr /\ Instr.op = "enq"
    /\ IF Instr.k \in kernels
       THEN /\ EnqueueOn(Instr)
            /\ pc' = pc + 1
            /\ UNCHANGED <<done, running, outcome>>
       ELSE IF cfg.kmap = "dict"
       THEN Raise("KeyError")
       ELSE /\ pc' = pc + 1
            /\ UNCHANGED <<q1, q2, enqd, done, running, outcome>>
    /\ UNCHANGED <<cfg, setup, kernels, ncall, args, active, bct, smoothvars>>

\* if k in kernels: q << kernels[k]()
EnqueueIfPresent ==
    /\ AtInstr /\ Instr.op = "enqif"
    /\ IF Instr.k \in kernels
       THEN EnqueueOn(Instr)
       ELSE UNCHANGED <<q1, q2, enqd>>
    /\ pc' = pc + 1
    /\ UNCHANGED <<cfg, setup, kernels, ncall, args, active, bct, done, running,
                   outcome, smoothvars>>

\* system.py:195-198
FinalAssembly ==
    /\ AtInstr /\ Instr.op = "final"
    /\ IF <<"eles", "tdivf_qpts">> \in kernels
       THEN Raise("NotImplementedError")
       ELSE IF Instr.k \in kernels
       THEN /\ EnqueueOn(Instr)
            /\ pc' = pc + 1
            /\ UNCHANGED <<done, running, outcome>>
       ELSE IF cfg.kmap = "dict"
       THEN Raise("KeyError")
       ELSE /\ pc' = pc + 1
            /\ UNCHANGED <<q1, q2, enqd, done, running, outcome>>
    /\ UNCHANGED <<cfg, setup, kernels, ncall, args, active, bct, smoothvars>>

(* ------------------------------- runall -------------------------------- *)
\* runall(qs) is entered: the scheduler now owns the queues of qs
RunAllEnter(qs) ==
    /\ running = <<>>
    /\ running' = qs
    /\ UNCHANGED <<cfg, setup, kernels, pc, q1, q2, done, enqd, ncall, args,
                   active, bct, outcome, smoothvars>>

\* The runall statement of the pipeline that is next
RunAllCall ==
    /\ AtInstr /\ Instr.op = "runall"
    /\ RunAllEnter(Instr.qs)

\* A scheduler that takes the most recently enqueued invocation
NextOf_Last(q) == Len(q)

\* The invocation the scheduler may take next from queue q: its head
NextOf(q) == 1

\* The scheduler executes one invocation of one of the supplied queues
KernelExec(qi) ==
    /\ running # <<>> /\ qi \in Range(running)
    /\ Queue(qi) # <<>>
    /\ LET q == Queue(qi)
           n == NextOf(q)
           rest == SubSeq(q, 1, n - 1) \o SubSeq(q, n + 1, Len(q))
       IN /\ done' = [done EXCEPT ![qi] = Append(@, q[n])]
          /\ q1' = IF qi = 1 THEN rest ELSE q1
          /\ q2' = IF qi = 2 THEN rest ELSE q2
    /\ UNCHANGED <<cfg, setup, kernels, pc, running, enqd, ncall, args, active,
                   bct, outcome, smoothvars>>

\* A runall that returns as soon as one of its queues is empty
RunAllComplete_Any(qs) == \E i \in 1..Len(qs) : Queue(qs[i]) = <<>>

\* Whether runall(qs) may return: every supplied queue is empty
RunAllComplete(qs) == \A i \in 1..Len(qs) : Queue(qs[i]) = <<>>

\* runall returns; the statement after it is next
RunAllReturn ==
    /\ running # <<>>
    /\ RunAllComplete(running)
    /\ running' = <<>>
    /\ pc' = pc + 1
    /\ UNCHANGED <<cfg, setup, kernels, q1, q2, done, enqd, ncall, args, active,
                   bct, outcome, smoothvars>>

\* rhs returns normally after the last statement of calc_RD_divf
Return ==
    /\ pc = ProgLen + 1
    /\ pc' = 0
    /\ outcome' = "returned"
    /\ UNCHANGED <<cfg, setup, kernels, q1, q2, running, done, enqd, ncall, args,
                   active, bct, smoothvars>>

(* ----------------------------- specification --------------------------- *)

Init ==
    /\ cfg \in Configs
    /\ setup = "none"
    /\ kernels = {}
    /\ pc = 0
    /\ q1 = <<>> /\ q2 = <<>>
    /\ running = <<>>
    /\ done = [qi \in {1, 2} |-> <<>>]
    /\ enqd = [qi \in {1, 2} |-> <<>>]
    /\ ncall = 0
    /\ args = NoArgs
    /\ active = [inb |-> 0, outb |-> 0]
    /\ bct = 0
    /\ outcome = "none"
    /\ basis = QuadBasis /\ M = <<>> /\ it = 0 /\ smoothmat = <<>>
    /\ rdpts = <<>> /\ interpmat = <<>> /\ diffmatRD = <<>>

Next ==
    \/ EulerSetBackend
    \/ NavierStokesSetBackend
    \/ \E t \in Times, uinbank \in Banks, foutbank \in Banks : rhs(t, uinbank, foutbank)
    \/ Enqueue
    \/ EnqueueIfPresent
    \/ FinalAssembly
    \/ RunAllCall
    \/ \E qi \in {1, 2} : KernelExec(qi)
    \/ RunAllReturn
    \/ Return

Spec == Init /\ [][Next]_vars

(* ----------------- runall on its own (any queue contents) -------------- *)
Q1Slots == { <<"eles", "disu_LO_ext">>, <<"mpiint", "scal_fpts_pack">>,
             <<"eles", "tdivtconf_LO">> }
Exchange == << <<"mpiint", "scal_fpts_send">>, <<"mpiint", "scal_fpts_recv">>,
               <<"mpiint", "scal_fpts_unpack">> >>
Stamped(ks, base) ==
    [i \in 1..Len(ks) |-> [k |-> ks[i], call |-> 0, at |-> base + i, t |-> 0]]
SeqsUpTo(S, n) == UNION { [1..m -> S] : m \in 0..n }
EulerRD == [ eles |-> "euler", shock |-> "riemann-difference", aaflux |-> FALSE,
             opt |-> {}, kmap |-> "dict", visc |-> "none", geo |-> "TGV",
             nupts |-> 1, neles |-> 1, ndims |-> 2 ]

InitRunAll ==
    /\ cfg = EulerRD /\ setup = "ok"
    /\ kernels = BaseKernels \cup EulerKernels \cup RDKernels
    /\ pc = 0
    /\ q1 \in { Stamped(ks, 0) : ks \in SeqsUpTo(Q1Slots, MaxQ) }
    /\ q2 \in { <<>>, Stamped(Exchange, MaxQ) }
    /\ running = <<>>
    /\ done = [qi \in {1, 2} |-> <<>>]
    /\ enqd = [qi \in {1, 2} |-> IF qi = 1 THEN q1 ELSE q2]
    /\ ncall = 0 /\ args = NoArgs /\ active = [inb |-> 0, outb |-> 0]
    /\ bct = 0 /\ outcome = "none"
    /\ basis = QuadBasis /\ M = <<>> /\ it = 0 /\ smoothmat = <<>>
    /\ rdpts = <<>> /\ interpmat = <<>> /\ diffmatRD = <<>>

\* runall(qs) called once on the queues as they stand
RunAllDirect(qs) == pc = 0 /\ RunAllEnter(qs)

NextRunAll ==
    \/ \E qs \in {<<1>>, <<1, 2>>} : RunAllDirect(qs)
    \/ \E qi \in {1, 2} : KernelExec(qi)
    \/ RunAllReturn

SpecRunAll == InitRunAll /\ [][NextRunAll]_vars

(* --------------- generateSmoothMat on its own (any layout) ------------- *)
\* The strictly increasing 1-D layouts of p+1 points on the grid
Layouts(p) ==
    { u \in [1..(p + 1) -> 0..MaxCoord] : \A n \in 1..p : u[n] < u[n + 1] }

InitSmooth ==
    /\ cfg = EulerRD /\ setup = "none" /\ kernels = {}
    /\ pc = 0 /\ q1 = <<>> /\ q2 = <<>> /\ running = <<>>
    /\ done = [qi \in {1, 2} |-> <<>>]
    /\ enqd = [qi \in {1, 2} |-> <<>>]
    /\ ncall = 0 /\ args = NoArgs /\ active = [inb |-> 0, outb |-> 0]
    /\ bct = 0 /\ outcome = "none"
    /\ \E p \in 1..MaxOrder, d \in {2, 3} : \E u \in Layouts(p) :
          basis = [order |-> p, upts |-> u, ndims |-> d]
    /\ M = <<>> /\ it = 0 /\ smoothmat = <<>>
    /\ rdpts = <<>> /\ interpmat = <<>> /\ diffmatRD = <<>>

\* euler/elements.py:174-177
SmoothEnter ==
    /\ M = <<>> /\ smoothmat = <<>>
    /\ M' = ZeroMat(NUpts(basis))
    /\ it' = 0
    /\ UNCHANGED <<cfg, setup, kernels, pipevars, basis, smoothmat, opvars>>

\* euler/elements.py:179-205: one iteration of the loop nest
SmoothIter ==
    /\ M # <<>> /\ smoothmat = <<>>
    /\ it < LoopLen(basis)
    /\ M' = SmoothStep(M, basis, it)
    /\ it' = it + 1
    /\ UNCHANGED <<cfg, setup, kernels, pipevars, basis, smoothmat, opvars>>

\* euler/elements.py:206
SmoothReturn ==
    /\ M # <<>> /\ smoothmat = <<>>
    /\ it = LoopLen(basis)
    /\ smoothmat' = M
    /\ UNCHANGED <<cfg, setup, kernels, pipevars, basis, M, it, opvars>>

NextSmooth == SmoothEnter \/ SmoothIter \/ SmoothReturn

SpecSmooth == InitSmooth /\ [][NextSmooth]_vars

(* ------------- the interpolation and differentiation operators --------- *)
InitOps ==
    /\ cfg = EulerRD /\ setup = "none" /\ kernels = {}
    /\ pc = 0 /\ q1 = <<>> /\ q2 = <<>> /\ running = <<>>
    /\ done = [qi \in {1, 2} |-> <<>>]
    /\ enqd = [qi \in {1, 2} |-> <<>>]
    /\ ncall = 0 /\ args = NoArgs /\ active = [inb |-> 0, outb |-> 0]
    /\ bct = 0 /\ outcome = "none"
    /\ \E p \in 1..MaxOrder : \E u \in Layouts(p) :
          basis = [order |-> p, upts |-> u, ndims |-> 2]
    /\ M = <<>> /\ it = 0 /\ smoothmat = <<>>
    /\ rdpts = <<>> /\ interpmat = <<>> /\ diffmatRD = <<>>

\* euler/elements.py:108: rdpts = self.getRDpts()
OpsGetRDpts ==
    /\ rdpts = <<>>
    /\ \E pts \in QuadRules(basis.order) : rdpts' = getRDpts(basis, pts)
    /\ UNCHANGED <<cfg, setup, kernels, pipevars, basis, M, it, smoothmat,
                   interpmat, diffmatRD>>

\* euler/elements.py:109: diffmatRD = self.generateRDDiffMat(rdpts)
OpsRDDiffMat ==
    /\ rdpts # <<>> /\ diffmatRD = <<>>
    /\ diffmatRD' = generateRDDiffMat(basis, rdpts)
    /\ UNCHANGED <<cfg, setup, kernels, pipevars, basis, M, it, smoothmat,
                   rdpts, interpmat>>

\* euler/elements.py:149: interpmat = self.generateInterpMat(rdpts)
OpsInterpMat ==
    /\ diffmatRD # <<>> /\ interpmat = <<>>
    /\ interpmat' = generateInterpMat(basis, rdpts)
    /\ UNCHANGED <<cfg, setup, kernels, pipevars, basis, M, it, smoothmat,
                   rdpts, diffmatRD>>

NextOps == OpsGetRDpts \/ OpsRDDiffMat \/ OpsInterpMat

SpecOps == InitOps /\ [][NextOps]_vars

(* ============================== properties ============================= *)
Slot(prov, name) == <<prov, name>>
InCall == outcome = "running"
Slots(s) == { s[i].k : i \in 1..Len(s) }
\* a was enqueued before b (calls are numbered, statements run in order)
Before(a, b) == a.call < b.call \/ (a.call = b.call /\ a.at < b.at)
\* the statements that are a runall closing a halo exchange (the statement
\* before them enqueued the unpack kernel)
ExchangeBarriers ==
    { i \in 2..ProgLen : rhs_LO[i].op = "runall"
                         /\ rhs_LO[i - 1].k = Slot("mpiint", "scal_fpts_unpack") }

C2_NothingExecutedAtRaise ==
    outcome = "NotImplementedError" => (done[1] = <<>> /\ done[2] = <<>>)

\* C3: per queue, invocations execute in enqueue order: what has executed
\* followed by what is pending is ordered by enqueue, also across stage
\* methods and across calls.
C3_QueueFIFO ==
    \A qi \in {1, 2} :
        LET s == done[qi] \o Queue(qi) IN
        \A i, j \in 1..Len(s) : i < j => Before(s[i], s[j])

\* C3 witness: inside the runall of calc_LO_residual (line 106), the kernel
\* enqueued by calc_LOupwind_divf at line 54 and the residual kernel enqueued
\* at line 102 have both executed on q1, and the later one is still followed
\* by pending work.
C3_Witness ==
    /\ running = <<1>> /\ AtInstr /\ Instr.line = 106
    /\ \E i \in 1..Len(done[1]) - 1 :
          done[1][i].at = 14 /\ done[1][i + 1].at = 15
    /\ q1 # <<>>

\* C4: runall is a barrier: at the statement after a runall every supplied
\* queue is empty and everything this call enqueued on it has executed; at
\* the statement after the runall closing a halo exchange, q2 is empty and
\* its send, recv and unpack have executed.
C4_RunAllBarrier ==
    \A i \in 1..ProgLen :
        (InCall /\ pc = i + 1 /\ running = <<>> /\ rhs_LO[i].op = "runall") =>
            /\ \A n \in 1..Len(rhs_LO[i].qs) :
                  LET qi == rhs_LO[i].qs[n] IN
                  Queue(qi) = <<>> /\ Range(enqd[qi]) \subseteq Range(done[qi])
            /\ i \in ExchangeBarriers =>
                  /\ q2 = <<>>
                  /\ \A j \in (i - 3)..(i - 1) :
                        \E n \in 1..Len(done[2]) : done[2][n].at = j

\* C4 witness: the statement after runall([q1, q2]) of line 51 is next and
\* the three exchange kernels have executed on q2.
C4_Witness ==
    /\ InCall /\ pc = 13 /\ running = <<>> /\ rhs_LO[12].qs = <<1, 2>>
    /\ Slots(done[2]) = { Slot("mpiint", "scal_fpts_send"),
                          Slot("mpiint", "scal_fpts_recv"),
                          Slot("mpiint", "scal_fpts_unpack") }

\* C6: when rhs returns normally both queues are empty and the invocations
\* executed during the call are exactly the invocations it enqueued, each
\* once, in order.
C6_ReturnDrained ==
    outcome = "returned" =>
        /\ q1 = <<>> /\ q2 = <<>>
        /\ \A qi \in {1, 2} : done[qi] = enqd[qi]
        /\ \A qi \in {1, 2} : \A i, j \in 1..Len(done[qi]) :
               i # j => done[qi][i] # done[qi][j]

\* C6 witness: a second call has returned normally; negdivconf ran with the
\* time of the call.
C6_Witness ==
    /\ outcome = "returned" /\ ncall = 2
    /\ \E i \in 1..Len(done[1]) :
          done[1][i].k = Slot("eles", "negdivconf") /\ done[1][i].t = args.t
    /\ Len(done[2]) = 12

\* C7: every slot rhs enqueues without a presence check is registered,
\* whatever the shock-capturing option, and rhs never fails on a missing
\* kernel.
C7_UnguardedSlotsRegistered ==
    (setup = "ok" /\ cfg.eles = "euler") =>
        /\ outcome # "KeyError"
        /\ (InCall /\ AtInstr /\ Instr.op \in {"enq", "final"}) => Instr.k \in kernels

C5_EmptyQueueChangesNothing ==
    (running \in {<<1>>, <<1, 2>>} /\ RunAllComplete(running) /\ enqd[2] = <<>>) =>
        /\ q1 = <<>> /\ q2 = <<>>
        /\ done[1] = enqd[1]
        /\ done[2] = <<>>

\* C5 witness: runall([q1, q2]) with q2 empty has executed a q1 of MaxQ
\* invocations, not all of the same kernel, and is about to return.
C5_Witness ==
    /\ running = <<1, 2>> /\ enqd[2] = <<>> /\ q1 = <<>>
    /\ Len(done[1]) = MaxQ
    /\ done[1][1].k # done[1][2].k

RECURSIVE RowSum(_, _, _)
RowSum(m, r, n) == IF n = 0 THEN RZero ELSE RAdd(m[r, n - 1], RowSum(m, r, n - 1))
HasNeighbourWeight(m, r, n) == \E c \in 0..(n - 1) : c # r /\ m[r, c] # RZero

\* C9: in the 2-D smoothing matrix every entry is non-negative, every row
\* sums to 1, and the diagonal entry is 1/2 when the row has a nonzero
\* off-diagonal entry and 1 otherwise.
C9_SmoothRowsSumToOne ==
    (smoothmat # <<>> /\ basis.ndims = 2) =>
        LET n == NUpts(basis) IN
        \A r \in 0..(n - 1) :
            /\ \A c \in 0..(n - 1) : smoothmat[r, c][1] >= 0
            /\ RowSum(smoothmat, r, n) = ROne
            /\ smoothmat[r, r] = IF HasNeighbourWeight(smoothmat, r, n) THEN RHalf ELSE ROne

\* C9 witness: an order-3 matrix on a non-uniform layout has been returned,
\* with a row of self-weight 1/2 and unequal neighbour weights and a row of
\* self-weight 1.
C9_Witness ==
    /\ smoothmat # <<>> /\ basis.ndims = 2 /\ basis.order = 3
    /\ basis.upts[2] - basis.upts[1] # basis.upts[3] - basis.upts[2]
    /\ \E r \in 0..15 : /\ smoothmat[r, r] = RHalf
                        /\ \E c, e \in 0..15 : /\ smoothmat[r, c] # RZero
                                               /\ smoothmat[r, e] # RZero
                                               /\ smoothmat[r, c] # smoothmat[r, e]
    /\ \E r \in 0..15 : smoothmat[r, r] = ROne

\* (D * I * v)[j] for v the values of x^k at the solution points
DiffOfInterp(b, D, I, k, j) ==
    LET p == b.order
        onrd == [m \in 0..(p + 1) |->
                    RSumOver([i \in 0..p |-> RMul(I[m, i], RPow(SolPts(b)[i], k))], 0, p)]
    IN RSumOver([m \in 0..(p + 1) |-> RMul(D[j, m], onrd[m])], 0, p + 1)

\* C11: the interpolation matrix is (p+2) x (p+1), the differentiation
\* matrix (p+1) x (p+2), the extended set is -1, p interior points, +1, and
\* differentiating the interpolated values of x^k, k <= p (a basis of the
\* polynomials of degree <= p) gives k*x^(k-1) at the solution points.
C11_DiffInterpExact ==
    (interpmat # <<>> /\ diffmatRD # <<>>) =>
        LET p == basis.order IN
        /\ DOMAIN interpmat = (0..(p + 1)) \X (0..p)
        /\ DOMAIN diffmatRD = (0..p) \X (0..(p + 1))
        /\ DOMAIN rdpts = 0..(p + 1)
        /\ rdpts[0] = Rat(-1, 1) /\ rdpts[p + 1] = ROne
        /\ \A k \in 0..p : \A j \in 0..p :
              DiffOfInterp(basis, diffmatRD, interpmat, k, j) =
                  IF k = 0 THEN RZero
                  ELSE RMul(Rat(k, 1), RPow(SolPts(basis)[j], k - 1))

\* C11 witness: both matrices of an order-3 element on a layout that is not
\* evenly spaced have been built.
C11_Witness ==
    /\ interpmat # <<>> /\ diffmatRD # <<>> /\ basis.order = 3
    /\ basis.upts[2] - basis.upts[1] # basis.upts[3] - basis.upts[2]
    /\ \E j \in 0..3 : diffmatRD[j, 0] # RZero /\ interpmat[0, j] # RZero

(* ------------------------- order of execution -------------------------- *)
\* The statement of source line ln
AtLine(ln) == CHOOSE i \in 1..ProgLen : rhs_LO[i].line = ln
\* The invocation statement i of the current call enqueued has executed
Executed(i) ==
    \E qi \in {1, 2} : \E n \in 1..Len(done[qi]) :
        done[qi][n].at = i /\ done[qi][n].call = ncall
\* Statement i of the current call has enqueued its invocation
Enqueued(i) ==
    \E qi \in {1, 2} : \E n \in 1..Len(enqd[qi]) : enqd[qi][n].at = i
\* The invocation statement i enqueued is still in a queue
Pending(i) ==
    \E qi \in {1, 2} : \E n \in 1..Len(Queue(qi)) :
        Queue(qi)[n].at = i /\ Queue(qi)[n].call = ncall
\* x completes before y starts (one invocation executes per step, so y
\* never counts as executed in a state in which x does not)
Ordered(x, y) == Executed(y) => Executed(x)
\* The same for statements given by their source lines
OrderedLines(lx, ly) == Ordered(AtLine(lx), AtLine(ly))
\* The last runall statement of stage k
LastRunAll(k) ==
    CHOOSE i \in StageFirst(k)..StageLast(k) :
        /\ rhs_LO[i].op = "runall"
        /\ \A j \in (i + 1)..StageLast(k) : rhs_LO[j].op # "runall"
\* The first runall statement of stage k
FirstRunAll(k) ==
    CHOOSE i \in StageFirst(k)..StageLast(k) :
        /\ rhs_LO[i].op = "runall"
        /\ \A j \in StageFirst(k)..(i - 1) : rhs_LO[j].op # "runall"
\* Stage method k has just returned
Returned(k) == InCall /\ pc = StageLast(k) + 1 /\ running = <<>>

\* C12 (as claimed): on return from each of the three stage methods nothing
\* the method enqueued is still in q1 or q2.
C12_StageEndsDrained ==
    \A k \in 1..3 :
        Returned(k) => \A i \in StageFirst(k)..StageLast(k) : ~Pending(i)

\* C12 (amended): on return from every stage method q2 is empty; calc_RD_divf
\* returns with q1 empty; calc_LOupwind_divf and calc_LO_residual return with
\* exactly the invocations they enqueued after their last runall pending in
\* q1, and those have executed when the first runall of the next stage method
\* returns.
C12_TrailingEnqueuesRunNextStage ==
    /\ \A k \in 1..3 : Returned(k) =>
          /\ q2 = <<>>
          /\ \A i \in StageFirst(k)..StageLast(k) :
                Pending(i) <=> (Enqueued(i) /\ i > LastRunAll(k))
          /\ \A n \in 1..Len(q1) : q1[n].call = ncall /\ q1[n].at > LastRunAll(k)
    /\ Returned(3) => q1 = <<>>
    /\ \A k \in 1..2 :
          (InCall /\ pc = FirstRunAll(k + 1) + 1 /\ running = <<>>) =>
              \A i \in StageFirst(k)..StageLast(k) : ~Pending(i)

\* C12 witness: calc_LOupwind_divf has returned and the two invocations of
\* lines 52 and 54 are pending in q1.
C12_Witness ==
    /\ Returned(1) /\ Len(q1) = 2
    /\ Pending(AtLine(52)) /\ Pending(AtLine(54))

PackSlot == Slot("mpiint", "scal_fpts_pack")
ExtSlots == { Slot("eles", "disu_LO_ext"), Slot("eles", "disu_HO_ext") }

\* C13 (as claimed): the pack kernel is enqueued on q2 and the runall that
\* executes it is given both queues.
C13_PackOnCommQueue ==
    /\ PackSlot \notin Slots(enqd[1])
    /\ (running # <<>> /\ PackSlot \in Slots(q1) \cup Slots(q2)) => running = <<1, 2>>

\* C13 (amended): the pack kernel is enqueued on the compute queue q1 right
\* after the extrapolation kernel; the runall that executes it is given q1
\* only, q2 being empty, so it executes after that extrapolation kernel, not
\* jointly with it.
C13_PackOnComputeQueue ==
    /\ PackSlot \notin Slots(q2) \cup Slots(enqd[2]) \cup Slots(done[2])
    /\ (running # <<>> /\ PackSlot \in Slots(q1)) => (running = <<1>> /\ q2 = <<>>)
    /\ \A n \in 1..Len(enqd[1]) :
          enqd[1][n].k = PackSlot =>
              /\ n > 1 /\ enqd[1][n - 1].k \in ExtSlots
              /\ enqd[1][n - 1].at = enqd[1][n].at - 1
              /\ Ordered(enqd[1][n - 1].at, enqd[1][n].at)

\* C13 witness: inside runall([q1]) of line 173 the high-order extrapolation
\* has executed and the pack kernel is the next invocation of q1.
C13_Witness ==
    /\ running = <<1>> /\ AtInstr /\ Instr.line = 173
    /\ Executed(AtLine(171))
    /\ q1 # <<>> /\ q1[1].k = PackSlot /\ q2 = <<>>

\* The exchange cycles: one per pack statement
PackAts == { i \in 1..ProgLen : rhs_LO[i].k = PackSlot }
\* The first statement after i that enqueues slot k
NextWith(i, k) ==
    CHOOSE j \in (i + 1)..ProgLen :
        rhs_LO[j].k = k /\ \A m \in (i + 1)..(j - 1) : rhs_LO[m].k # k
\* The partition-boundary flux or solution kernel closing the cycle of pack i
CommOf(i) ==
    LET u == NextWith(i, Slot("mpiint", "scal_fpts_unpack")) IN
    CHOOSE j \in (u + 1)..ProgLen :
        /\ rhs_LO[j].op = "enq" /\ rhs_LO[j].k[1] = "mpiint"
        /\ \A m \in (u + 1)..(j - 1) : rhs_LO[m].k[1] # "mpiint"
\* The statements of the cycle of pack i, in chain order
CycleChain(i) ==
    << i, NextWith(i, Slot("mpiint", "scal_fpts_send")),
       NextWith(i, Slot("mpiint", "scal_fpts_recv")),
       NextWith(i, Slot("mpiint", "scal_fpts_unpack")), CommOf(i) >>

\* C14: there are four exchange cycles; in each, pack, send, recv, unpack
\* and the partition-boundary kernel execute in that order, one completing
\* before the next starts; the partition-boundary kernel of a cycle
\* completes before the extrapolation and the pack of a later cycle start;
\* a call that returns has executed all of them.
C14_ExchangeCyclesInOrder ==
    /\ Cardinality(PackAts) = 4
    /\ \A i \in PackAts :
          /\ \A n \in 1..4 : Ordered(CycleChain(i)[n], CycleChain(i)[n + 1])
          /\ \A j \in PackAts : j > i =>
                /\ CommOf(i) < j - 1
                /\ Ordered(CommOf(i), j - 1)
                /\ Ordered(CommOf(i), j)
          /\ rhs_LO[i - 1].k \in ExtSlots
          /\ outcome = "returned" => \A n \in 1..5 : Executed(CycleChain(i)[n])

\* C14 witness: a call has returned, and its four packs, twelve exchange
\* kernels and four partition-boundary kernels have executed.
C14_Witness ==
    /\ outcome = "returned"
    /\ \A i \in PackAts : \A n \in 1..5 : Executed(CycleChain(i)[n])
    /\ Len(done[2]) = 12 /\ Cardinality(PackAts) = 4

\* C15: in every runall given both queues, q2 holds the send, recv and
\* unpack kernels of one cycle (all three at the call, a tail of them as
\* they execute) and nothing else, and q1 holds no mpiint kernel.
C15_JointRunSeparatesMpi ==
    (AtInstr /\ Instr.op = "runall" /\ Len(Instr.qs) = 2) =>
        /\ \A n \in 1..Len(q1) : q1[n].k[1] # "mpiint"
        /\ running = <<>> =>
              /\ [n \in 1..Len(q2) |-> q2[n].k] = Exchange
              /\ \A n \in 1..Len(q2) : q2[n].call = ncall /\ q2[n].at = pc - 4 + n
        /\ running # <<>> =>
              \E m \in 0..3 : [n \in 1..Len(q2) |-> q2[n].k] = SubSeq(Exchange, m + 1, 3)

\* C15 witness: runall([q1, q2]) of line 185 is about to be called in a
\* second call, with the three exchange kernels in q2 and local work in q1.
C15_Witness ==
    /\ AtInstr /\ Instr.line = 185 /\ running = <<>> /\ ncall = 2
    /\ Len(q2) = 3 /\ Len(q1) >= 4

\* C16: where the limiter is registered, limitinterp (line 175) completes
\* before the high-order pack (line 172) and before the iint, bcint and
\* mpiint comm_flux kernels of the high-order pass (lines 180, 181, 186)
\* start.
C16_LimiterBeforeFaceValuesUsed ==
    Slot("eles", "limitinterp") \in kernels =>
        \A ln \in {172, 180, 181, 186} : OrderedLines(175, ln)

\* C17 (as claimed): where the copy kernel is registered, copy_soln_at_fpts
\* (line 167) executes after disu_HO_ext, disu_HO_int, limitinterp and the
\* high-order iint, bcint and mpiint comm_flux kernels.
C17_CopyAfterHighOrderFlux ==
    Slot("eles", "copy_soln_at_fpts") \in kernels =>
        \A ln \in {171, 174, 175, 180, 181, 186} : OrderedLines(ln, 167)

\* C17 (amended): the copy is taken in the low-order part of calc_RD_divf:
\* copy_soln_at_fpts executes after disu_LO_ext, disu_LO_int and the
\* low-order iint, bcint and mpiint comm_flux kernels (lines 151-166), and,
\* under riemann-difference, where it is registered, before disu_HO_ext,
\* disu_HO_int, limitinterp, the high-order comm_flux kernels and
\* riemanndifference (lines 171-189); a call that returns has executed it
\* once.
C17_CopyHoldsLowOrderFlux ==
    /\ \A ln \in {151, 154, 159, 160, 166} : OrderedLines(ln, 167)
    /\ Slot("eles", "copy_soln_at_fpts") \in kernels =>
          /\ \A ln \in {171, 174, 175, 180, 181, 186, 189} : OrderedLines(167, ln)
          /\ outcome = "returned" =>
                Len(SelectSeq(done[1], LAMBDA inv :
                       inv.k = Slot("eles", "copy_soln_at_fpts"))) = 1

\* C17 witness: the copy and the low-order common flux before it have
\* executed, and the high-order extrapolation has not been enqueued yet.
C17_Witness ==
    /\ InCall /\ Executed(AtLine(167)) /\ Executed(AtLine(166))
    /\ ~Enqueued(AtLine(171)) /\ pc = AtLine(171)

\* The source lines of the kernels calc_LO_residual enqueues after the
\* residual kernel of line 102
AfterResidual ==
    { rhs_LO[i].line : i \in { j \in StageFirst(2)..StageLast(2) :
                                  rhs_LO[j].op # "runall" } } \ {102}

\* C18: the residual kernel (line 102) executes after the mpiint
\* comm_flux_centered and tdivtconf_LO of calc_LOupwind_divf (lines 52, 54),
\* and, where it is registered, before every kernel calc_LO_residual
\* enqueues after it (lines 104-122).
C18_ResidualAfterLowOrderStage ==
    /\ OrderedLines(52, 102) /\ OrderedLines(54, 102)
    /\ Slot("eles", "residual") \in kernels =>
          \A ln \in AfterResidual : OrderedLines(102, ln)

\* C18 witness: inside runall([q1]) of line 106 the two trailing kernels of
\* calc_LOupwind_divf and the residual kernel have executed, and disu_LO_ext
\* of line 104 is the next invocation of q1.
C18_Witness ==
    /\ running = <<1>> /\ AtInstr /\ Instr.line = 106
    /\ Executed(AtLine(52)) /\ Executed(AtLine(54)) /\ Executed(AtLine(102))
    /\ q1 # <<>> /\ q1[1].at = AtLine(104)

SensorBlendFinal ==
    << Slot("eles", "normalizeresidual"), Slot("eles", "riemanndifference"),
       Slot("eles", "blendintflux"), Slot("eles", "tdivtconf_RD"),
       Slot("eles", "negdivconf") >>

\* C19: in a call that returns, normalizeresidual, riemanndifference,
\* blendintflux, tdivtconf_RD and negdivconf have executed once each, in
\* that order; negdivconf is the last invocation executed, nothing is left
\* in a queue, and it carries the call's t.
C19_SensorBlendFinalOrder ==
    outcome = "returned" =>
        LET ran == SelectSeq(done[1], LAMBDA inv : inv.k \in Range(SensorBlendFinal))
        IN /\ [n \in 1..Len(ran) |-> ran[n].k] = SensorBlendFinal
           /\ \A n \in 1..Len(ran) : ran[n].call = ncall
           /\ done[1][Len(done[1])].k = Slot("eles", "negdivconf")
           /\ done[1][Len(done[1])].t = args.t
           /\ q1 = <<>> /\ q2 = <<>>

\* The face-neighbours of node (i, j): matrix column c and distance d (in
\* grid units) from the node
FaceNeighbours(b, i, j) ==
    LET p == b.order
        at(n) == b.upts[n + 1]
        uidx(xidx, yidx) == xidx + yidx * (p + 1)
    IN { [c |-> uidx(x, j), d |-> Abs(at(x) - at(i))] : x \in {i - 1, i + 1} \cap (0..p) }
       \cup
       { [c |-> uidx(i, y), d |-> Abs(at(y) - at(j))] : y \in {j - 1, j + 1} \cap (0..p) }

\* C20: in every row of the 2-D smoothing matrix that is not the identity
\* row, the weights given to the face-neighbours are proportional to the
\* inverse of the distance to that same neighbour (weight times distance
\* is the same for every neighbour the row gives weight to).
C20_WeightInverseToOwnDistance ==
    (smoothmat # <<>> /\ basis.ndims = 2) =>
        \A i \in 0..basis.order : \A j \in 0..basis.order :
            LET r == i + j * (basis.order + 1) IN
            smoothmat[r, r] # ROne =>
                \A a \in FaceNeighbours(basis, i, j) :
                    \A e \in FaceNeighbours(basis, i, j) :
                        (smoothmat[r, a.c] # RZero /\ smoothmat[r, e.c] # RZero) =>
                            RMul(smoothmat[r, a.c], Rat(a.d, 1)) =
                                RMul(smoothmat[r, e.c], Rat(e.d, 1))

\* The sum of the off-diagonal entries of row r
OffDiagSum(m, r, n) == RSub(RowSum(m, r, n), m[r, r])

\* The distances of lines 189-192 in one direction at index a: to the next
\* point and to the previous one, the index clamped to 0..p
DirDistances(b, a) ==
    LET p == b.order
        at(n) == b.upts[n + 1]
    IN << Abs(at(Min(a + 1, p)) - at(a)), Abs(at(Max(0, a - 1)) - at(a)) >>

\* C21: in the 2-D smoothing matrix a row is the identity row exactly when
\* the node has no face-neighbour at nonzero distance; a node with such a
\* neighbour has self-weight 1/2 and neighbour weights totalling 1/2; and a
\* direction gives no weight only when both its distances are zero.
C21_IdentityOnlyWithoutNeighbours ==
    (smoothmat # <<>> /\ basis.ndims = 2) =>
        LET p == basis.order
            n == NUpts(basis)
        IN \A i \in 0..p : \A j \in 0..p :
            LET r == i + j * (p + 1)
                near == { e \in FaceNeighbours(basis, i, j) : e.d # 0 }
                xs == { e.c : e \in { f \in FaceNeighbours(basis, i, j) : f.c % (p + 1) # i } }
                ys == { e.c : e \in { f \in FaceNeighbours(basis, i, j) : f.c % (p + 1) = i } }
            IN /\ (smoothmat[r, r] = ROne) <=> (near = {})
               /\ near # {} => /\ smoothmat[r, r] = RHalf
                               /\ OffDiagSum(smoothmat, r, n) = RHalf
               /\ (\A c \in xs : smoothmat[r, c] = RZero) =>
                      DirDistances(basis, i) = <<0, 0>>
               /\ (\A c \in ys : smoothmat[r, c] = RZero) =>
                      DirDistances(basis, j) = <<0, 0>>

\* C22: wherever an rhs call can start (before the first call, after a call
\* that returned and after a call that ended with the not-implemented
\* error) both queues are empty, and, where the riemann-difference slots
\* are registered, every invocation a call executes was enqueued by that
\* call.
C22_QueuesEmptyAtEntry ==
    /\ (pc = 0 /\ outcome \in {"none", "returned", "NotImplementedError"}) =>
          (q1 = <<>> /\ q2 = <<>>)
    /\ RDKernels \subseteq kernels =>
          \A qi \in {1, 2} : \A n \in 1..Len(done[qi]) : done[qi][n].call = ncall

\* C23: for ndims = 2 and ndims = 3 every row of the matrix
\* generateSmoothMat returns sums to 1.
C23_RowsSumToOneInEveryDimension ==
    (smoothmat # <<>> /\ basis.ndims \in {2, 3}) =>
        \A r \in 0..(NUpts(basis) - 1) : RowSum(smoothmat, r, NUpts(basis)) = ROne

====
